---------------------------- MODULE Spec2Model ----------------------------
(***************************************************************************)
(* A model of the Azure entitlements importer (src/cli.py): the paginated  *)
(* fetcher get_all, the key sanitizer safe, and the export pipeline main   *)
(* (fetch, flatten, write files, optionally run terraform).                *)
(*                                                                         *)
(* Strings the program computes with (display names, keys, target ids) are *)
(* sequences of one-character strings, so that replace, lower, slicing and *)
(* concatenation are computed as Python computes them.                     *)
(***************************************************************************)
EXTENDS Integers, Sequences, FiniteSets, TLC

VARIABLES
    \* ---- safe (src/cli.py:30-31), exercised on its own
    sName,      \* the display name given to safe
    sOnce,      \* safe(sName)
    sTwice,     \* safe(safe(sName))
    sStage,     \* how many times safe has been applied
    \* ---- get_all (src/cli.py:17-23), exercised on its own
    chain,      \* the responses the server gives to the 1st, 2nd, ... request
    url,        \* get_all's url: 0 when falsy (None or ""), else the page it names
    items,      \* get_all's accumulator
    requests,   \* number of requests.get calls issued
    fpc,        \* "loop" | "returned" | "raised"
    \* ---- main (src/cli.py:42-186)
    api,        \* what the Graph API holds: packages with their policies and assignments
    tokenOk,    \* whether the token response carries access_token
    opts,       \* the command line flags
    fs,         \* the output directory: file name -> content
    pre,        \* the output directory as it was when this run of main started
    written,    \* the files this run has opened for writing
    procs,      \* the subprocesses this run has started, with their exit status
    runs,       \* how many times main has been started on this directory
    pc,         \* where main is
    err,        \* the uncaught exception that ended main, or "none"
    packages,   \* the packages still to be visited by the loop of line 55
    pkgNo,      \* position of the current package in the fetched list
    name,       \* main's name: the current package key
    pols,       \* the policies of the current package still to be visited
    assigns,    \* the assignments of the current package still to be visited
    subNo,      \* position of the last policy / assignment taken of the current package
    access_packages, assignment_policies, assignments,
    grouped_assignments, import_cmds

safeVars == <<sName, sOnce, sTwice, sStage>>
fetchVars == <<chain, url, items, requests, fpc>>
mainVars == <<api, tokenOk, opts, fs, pre, written, procs, runs, pc, err, packages,
              pkgNo, name, pols, assigns, subNo, access_packages, assignment_policies,
              assignments, grouped_assignments, import_cmds>>
vars == <<safeVars, fetchVars, mainVars>>

-----------------------------------------------------------------------------
(* Bounds *)

\* longest display name given to safe on its own
MaxLen == 3
\* longest response chain given to get_all on its own
MaxPages == 2
\* most items on one page of such a chain
MaxItems == 2
\* most API objects (packages + policies + assignments) a catalog holds
MaxFetched == 3
\* how many objects the Graph API puts on one page
ServerPageSize == 1
\* how many times main is run on the same output directory
MaxRuns == 2

-----------------------------------------------------------------------------
(* Strings *)

Upper == <<"A", "B", "C", "D", "E", "F", "G", "H", "I", "J", "K", "L", "M",
           "N", "O", "P", "Q", "R", "S", "T", "U", "V", "W", "X", "Y", "Z">>
LowerOf == <<"a", "b", "c", "d", "e", "f", "g", "h", "i", "j", "k", "l", "m",
             "n", "o", "p", "q", "r", "s", "t", "u", "v", "w", "x", "y", "z">>

\* U+0130, LATIN CAPITAL LETTER I WITH DOT ABOVE: the one character whose
\* lowercase is two characters, "i" and U+0307 COMBINING DOT ABOVE.
IDot == "I+dot"
CombiningDot == "+dot"

\* str.lower() on one character: a sequence of characters.
LowerChar(c) ==
    IF c = IDot THEN <<"i", CombiningDot>>
    ELSE IF \E k \in 1..Len(Upper) : Upper[k] = c
         THEN <<LowerOf[CHOOSE k \in 1..Len(Upper) : Upper[k] = c]>>
         ELSE <<c>>

RECURSIVE Lower(_)
Lower(s) == IF s = <<>> THEN <<>> ELSE LowerChar(Head(s)) \o Lower(Tail(s))

\* str.replace(old, new) for one-character old and new.
Replace(s, old, new) == [k \in 1..Len(s) |-> IF s[k] = old THEN new ELSE s[k]]

\* A plausible slip: hyphens become spaces, after the spaces are already gone.
SafeHyphenToSpace(s) == Lower(Replace(Replace(s, " ", "_"), "-", " "))

\* safe: name.replace(" ", "_").replace("-", "_").lower()
safe(s) == Lower(Replace(Replace(s, " ", "_"), "-", "_"))

\* s[:n]
Slice(s, n) == SubSeq(s, 1, IF Len(s) < n THEN Len(s) ELSE n)

RECURSIVE SeqsUpTo(_, _)
\* all sequences over S of length at most n
SeqsUpTo(S, n) ==
    IF n = 0 THEN {<<>>}
    ELSE LET shorter == SeqsUpTo(S, n - 1)
         IN  shorter \cup {Append(q, x) : q \in {r \in shorter : Len(r) = n - 1}, x \in S}

-----------------------------------------------------------------------------
(* safe on its own *)

SafeAlphabet == {" ", "-", "_", "A", "a", IDot}

SafeIdle == sName = <<>> /\ sOnce = <<>> /\ sTwice = <<>> /\ sStage = 0

\* One call of safe; the second call is given the result of the first.
ApplySafe ==
    /\ sStage < 2
    /\ IF sStage = 0
       THEN sOnce' = safe(sName) /\ UNCHANGED sTwice
       ELSE sTwice' = safe(sOnce) /\ UNCHANGED sOnce
    /\ sStage' = sStage + 1
    /\ UNCHANGED <<sName, fetchVars, mainVars>>

-----------------------------------------------------------------------------
(* get_all: the paginated fetcher *)

FetchItems == {1, 2}

\* A response body as requests' .json() gives it: "value" present or not,
\* "@odata.nextLink" absent, the empty string, or the URL of the following page.
JsonResponses ==
    {[json |-> TRUE, hasValue |-> TRUE, value |-> v, next |-> n] :
        v \in SeqsUpTo(FetchItems, MaxItems), n \in {"absent", "empty", "link"}}
    \cup {[json |-> TRUE, hasValue |-> FALSE, value |-> <<>>, next |-> n] :
        n \in {"absent", "empty", "link"}}

\* A body that is not JSON: .json() raises.
NotJson == [json |-> FALSE, hasValue |-> FALSE, value |-> <<>>, next |-> "absent"]

Responses == JsonResponses \cup {NotJson}

\* An error response: a JSON body with neither an item list nor a continuation link.
IsErrorResponse(res) == res.json /\ ~res.hasValue /\ res.next = "absent"

\* res.get("value", [])
ResValue(res) == IF res.hasValue THEN res.value ELSE <<>>

\* A plausible slip: the page's items replace the accumulator.
LoopBodyOverwrite(st, res) ==
    IF ~res.json
    THEN [st EXCEPT !.requests = st.requests + 1, !.fpc = "raised"]
    ELSE [url |-> IF res.next = "link" THEN st.url + 1 ELSE 0,
          items |-> ResValue(res),
          requests |-> st.requests + 1,
          fpc |-> "loop"]

\* A plausible slip: res["value"], which raises KeyError on an error response.
LoopBodyStrict(st, res) ==
    IF ~res.json \/ ~res.hasValue
    THEN [st EXCEPT !.requests = st.requests + 1, !.fpc = "raised"]
    ELSE [url |-> IF res.next = "link" THEN st.url + 1 ELSE 0,
          items |-> st.items \o res.value,
          requests |-> st.requests + 1,
          fpc |-> "loop"]

\* One turn of the while loop (lines 20-22) on get_all's locals, given the
\* response to the request for st.url. A url naming the following page is
\* truthy; None and "" are falsy and become 0.
LoopBody(st, res) ==
    IF ~res.json
    THEN [st EXCEPT !.requests = st.requests + 1, !.fpc = "raised"]
    ELSE [url |-> IF res.next = "link" THEN st.url + 1 ELSE 0,
          items |-> st.items \o ResValue(res),
          requests |-> st.requests + 1,
          fpc |-> "loop"]

RECURSIVE RunLoop(_, _)
RunLoop(st, ch) ==
    IF st.fpc # "loop" THEN st
    ELSE IF st.url = 0 THEN [st EXCEPT !.fpc = "returned"]
    ELSE RunLoop(LoopBody(st, ch[st.url]), ch)

\* get_all(url, headers) against a server that answers with the chain ch:
\* the locals when the call ends.
GetAll(ch) == RunLoop([url |-> 1, items |-> <<>>, requests |-> 0, fpc |-> "loop"], ch)

\* The chains a server can give: the last response names no following page.
Chains ==
    {ch \in SeqsUpTo(Responses, MaxPages) :
        Len(ch) >= 1 /\ (ch[Len(ch)].json => ch[Len(ch)].next # "link")}

FetchIdle == chain = <<>> /\ url = 0 /\ items = <<>> /\ requests = 0 /\ fpc = "idle"

\* while url: res = requests.get(url).json(); items += ...; url = ...
FetchPage ==
    /\ fpc = "loop"
    /\ url # 0
    /\ LET st == LoopBody([url |-> url, items |-> items, requests |-> requests,
                           fpc |-> fpc], chain[url])
       IN  /\ url' = st.url
           /\ items' = st.items
           /\ requests' = st.requests
           /\ fpc' = st.fpc
    /\ UNCHANGED <<chain, safeVars, mainVars>>

\* the loop test fails: return items
ReturnItems ==
    /\ fpc = "loop"
    /\ url = 0
    /\ fpc' = "returned"
    /\ UNCHANGED <<chain, url, items, requests, safeVars, mainVars>>


-----------------------------------------------------------------------------
(* What the Graph API holds *)

\* Display names of access packages; the first two sanitize to the same key.
PkgNames == {<<"A", " ", "B">>, <<"a", "-", "b">>, <<"C">>}

\* An access package as the API returns it, short of its id. missing names
\* the one required field the item lacks, or is "none". All packages are of
\* the catalog the request filters on; "A B" comes with and without a
\* description, "a-b" with one, "C" without.
WellPkgs ==
    {p \in [displayName : PkgNames, catalogId : {"cat"}, hasDescription : BOOLEAN,
            description : {"", "d1"}, missing : {"none"}] :
        /\ p.hasDescription <=> p.description = "d1"
        /\ p.displayName = <<"a", "-", "b">> => p.hasDescription
        /\ p.displayName = <<"C">> => ~p.hasDescription}

\* Two assignment policies: one with every optional field absent, one with all.
WellPols ==
    {[displayName |-> <<"P">>, hasDuration |-> FALSE, durationInDays |-> 0,
      hasApproval |-> FALSE, isApprovalRequired |-> FALSE, approvalStages |-> <<>>,
      missing |-> "none"],
     [displayName |-> <<"Q", "-", "r">>, hasDuration |-> TRUE, durationInDays |-> 7,
      hasApproval |-> TRUE, isApprovalRequired |-> TRUE,
      approvalStages |-> <<[primaryApprovers |-> <<"u1", "u2">>,
                            escalationApprovers |-> <<"u3">>],
                           [primaryApprovers |-> <<"u4">>,
                            escalationApprovers |-> <<>>]>>,
      missing |-> "none"]}

\* Target ids. T1, T3 and T5 share their first six characters.
T1 == <<"1", "1", "1", "1", "1", "1", "x">>
T2 == <<"2", "1", "1", "1", "1", "1", "y">>
T3 == <<"1", "1", "1", "1", "1", "1", "z">>
T4 == <<"2", "2">>
T5 == <<"1", "1", "1", "1", "1", "1", "w">>
Targets == {T1, T2, T3, T4, T5}

WellAsgs == {[targetId |-> t, missing |-> "none"] : t \in Targets}

BrokenPkgs ==
    {[displayName |-> <<"C">>, catalogId |-> "cat", hasDescription |-> FALSE,
      description |-> "", missing |-> m] : m \in {"displayName", "catalogId", "id"}}

BrokenPols ==
    {[displayName |-> <<"P">>, hasDuration |-> FALSE, durationInDays |-> 0,
      hasApproval |-> FALSE, isApprovalRequired |-> FALSE, approvalStages |-> <<>>,
      missing |-> m] : m \in {"displayName", "id"}}

BrokenAsgs == {[targetId |-> T4, missing |-> m] : m \in {"targetId", "id"}}

\* The directory: the displayName of a directoryObjects response, when it has one.
HasDirectoryName(t) == t # T4
DirectoryName(t) ==
    IF t \in {T1, T3} THEN <<"T", " ", "A">>
    ELSE IF t = T2 THEN <<"t", "-", "a">>
    ELSE <<"T", "e", "r", "r", "a", "f", "o", "r", "m">>

UnknownGroup == <<"U", "n", "k", "n", "o", "w", "n", "G", "r", "o", "u", "p">>

\* A package with its policies and its assignments.
Bundle(p, ps, as) == [pkg |-> p, pols |-> ps, asgs |-> as]
BundleCost(b) == 1 + Len(b.pols) + Len(b.asgs)

\* the well-formed bundles of exactly k objects
WellBundles(k) ==
    {Bundle(p, ps, as) :
        p \in WellPkgs,
        ps \in SeqsUpTo(WellPols, k - 1),
        as \in SeqsUpTo(WellAsgs, k - 1)}

BundlesOfCost(k) == {b \in WellBundles(k) : BundleCost(b) = k}

RECURSIVE WellWorlds(_)
\* the catalogs of at most n objects, all well-formed
WellWorlds(n) ==
    {<<>>} \cup
    UNION {LET rest == WellWorlds(n - k)
           IN  {<<b>> \o w : b \in BundlesOfCost(k), w \in rest} : k \in 1..n}

\* A catalog with one malformed object. main stops at the first malformed
\* object it reads, so nothing it would read after that object is modelled.
BrokenWorlds(n) ==
    IF n = 0 THEN {}
    ELSE LET base == WellWorlds(n - 1)
             full == {w \in base : w # <<>>}
             last(w) == w[Len(w)]
         IN  {Append(w, Bundle(p, <<>>, <<>>)) : w \in base, p \in BrokenPkgs}
             \cup {[w EXCEPT ![Len(w)].pols = Append(@, l)] :
                      w \in {v \in full : last(v).asgs = <<>>}, l \in BrokenPols}
             \cup {[w EXCEPT ![Len(w)].asgs = Append(@, a)] :
                      w \in full, a \in BrokenAsgs}

Worlds(n) == WellWorlds(n) \cup BrokenWorlds(n)

PkgId(i) == 100 * i
PolId(i, j) == 100 * i + j
AsgId(i, j) == 100 * i + 50 + j

\* The collections the API serves, each object with its id.
ServerPackages(w) ==
    [i \in 1..Len(w) |->
        [displayName |-> w[i].pkg.displayName, catalogId |-> w[i].pkg.catalogId,
         hasDescription |-> w[i].pkg.hasDescription,
         description |-> w[i].pkg.description, missing |-> w[i].pkg.missing,
         id |-> PkgId(i)]]

ServerPolicies(w, i) ==
    [j \in 1..Len(w[i].pols) |->
        [displayName |-> w[i].pols[j].displayName,
         hasDuration |-> w[i].pols[j].hasDuration,
         durationInDays |-> w[i].pols[j].durationInDays,
         hasApproval |-> w[i].pols[j].hasApproval,
         isApprovalRequired |-> w[i].pols[j].isApprovalRequired,
         approvalStages |-> w[i].pols[j].approvalStages,
         missing |-> w[i].pols[j].missing,
         id |-> PolId(i, j)]]

ServerAssignments(w, i) ==
    [j \in 1..Len(w[i].asgs) |->
        [targetId |-> w[i].asgs[j].targetId, missing |-> w[i].asgs[j].missing,
         id |-> AsgId(i, j)]]

RECURSIVE Pages(_)
\* The server's answer to a list request: the collection cut into pages of
\* ServerPageSize, every page but the last naming the following one.
Pages(list) ==
    IF Len(list) <= ServerPageSize
    THEN <<[json |-> TRUE, hasValue |-> TRUE, value |-> list, next |-> "absent"]>>
    ELSE <<[json |-> TRUE, hasValue |-> TRUE,
            value |-> SubSeq(list, 1, ServerPageSize), next |-> "link"]>>
         \o Pages(SubSeq(list, ServerPageSize + 1, Len(list)))

\* get_all on a collection of the API
Fetch(list) == GetAll(Pages(list)).items


-----------------------------------------------------------------------------
(* main: the dictionaries and the files *)

\* dict[k] = v
Put(d, k, v) == [x \in DOMAIN d \cup {k} |-> IF x = k THEN v ELSE d[x]]

EmptyDict == <<>>

\* File names: <<stem, extension>>.
File(stem, ext) == <<stem, ext>>
TerraformTfvars == File(<<"t", "e", "r", "r", "a", "f", "o", "r", "m">>, "tfvars")
GroupTfvars(group) == File(group, "tfvars")
ImportScript == File(<<"t", "e", "r", "r", "a", "f", "o", "r", "m", "_", "i", "m", "p", "o", "r", "t">>, "sh")
MainTf == File(<<"m", "a", "i", "n">>, "tf")
VariablesTf == File(<<"v", "a", "r", "i", "a", "b", "l", "e", "s">>, "tf")
BackendTf == File(<<"b", "a", "c", "k", "e", "n", "d">>, "tf")

\* File contents. Of a file main did not write, only whether its text
\* contains "backend" matters to main.
UserFile(b) == [kind |-> "user", backend |-> b]
\* The literal of lines 115-150; it does not contain the text "backend".
MainScaffold == [kind |-> "main_scaffold", backend |-> FALSE]
\* The literal of lines 155-178.
VariablesScaffold == [kind |-> "variables_scaffold", backend |-> FALSE]

\* s[:6] of line 85
IdPrefixLen == 6

\* A plausible slip: dict.setdefault, the first package of a key stays.
StorePackageFirstWins(ap, key, pkg) ==
    IF key \in DOMAIN ap THEN ap
    ELSE Put(ap, key, [catalog_id |-> pkg.catalogId,
                       description |-> IF pkg.hasDescription THEN pkg.description ELSE ""])

\* lines 57-60: access_packages[name] = {...}
StorePackage(ap, key, pkg) ==
    Put(ap, key, [catalog_id |-> pkg.catalogId,
                  description |-> IF pkg.hasDescription THEN pkg.description ELSE ""])

\* A plausible slip: pkg.get("catalogId") in place of pkg["catalogId"].
PackageErrorLenient(pkg) ==
    IF pkg.missing = "displayName" THEN "KeyError:displayName"
    ELSE IF pkg.missing = "id" THEN "KeyError:id"
    ELSE "none"

\* The KeyError lines 56-61 raise on a package, or "none".
PackageError(pkg) ==
    IF pkg.missing = "displayName" THEN "KeyError:displayName"
    ELSE IF pkg.missing = "catalogId" THEN "KeyError:catalogId"
    ELSE IF pkg.missing = "id" THEN "KeyError:id"
    ELSE "none"

\* line 61
PackageCmd(key, pkg) ==
    [resource |-> "azuread_access_package", key |-> key, id |-> pkg.id]

\* line 65: pol_key
PolKey(key, pol) == key \o <<"_">> \o safe(pol.displayName)

RECURSIVE Approvers(_, _)
\* lines 70-77: the approver ids of every stage, in order
Approvers(stages, primary) ==
    IF stages = <<>> THEN <<>>
    ELSE (IF primary THEN Head(stages).primaryApprovers
          ELSE Head(stages).escalationApprovers) \o Approvers(Tail(stages), primary)

\* A plausible slip: the policy names its own key as its package key.
PolicyEntryOwnKey(key, pol) ==
    [access_package_key |-> PolKey(key, pol),
     duration_in_days |-> IF pol.hasDuration THEN pol.durationInDays ELSE 30,
     request_approval |-> IF pol.hasApproval THEN pol.isApprovalRequired ELSE FALSE,
     approvers_primary |-> Approvers(pol.approvalStages, TRUE),
     approvers_secondary |-> Approvers(pol.approvalStages, FALSE)]

\* lines 66-78
PolicyEntry(key, pol) ==
    [access_package_key |-> key,
     duration_in_days |-> IF pol.hasDuration THEN pol.durationInDays ELSE 30,
     request_approval |-> IF pol.hasApproval THEN pol.isApprovalRequired ELSE FALSE,
     approvers_primary |-> Approvers(pol.approvalStages, TRUE),
     approvers_secondary |-> Approvers(pol.approvalStages, FALSE)]

\* A plausible slip: the command of line 79 copied from line 91 unchanged.
PolicyCmdCopied(key, pol) ==
    [resource |-> "azuread_access_package_assignment",
     key |-> PolKey(key, pol), id |-> pol.id]

\* line 79
PolicyCmd(key, pol) ==
    [resource |-> "azuread_access_package_assignment_policy",
     key |-> PolKey(key, pol), id |-> pol.id]

\* get_display_name: res.get("displayName", "UnknownGroup")
get_display_name(t) == IF HasDirectoryName(t) THEN DirectoryName(t) ELSE UnknownGroup

\* line 84
GroupOf(a) == safe(get_display_name(a.targetId))

\* line 85: assign_key
AssignKey(key, a) == key \o <<"_", "u", "s", "e", "r", "_">> \o Slice(a.targetId, IdPrefixLen)

\* lines 86-89
AssignmentEntry(key, a) == [access_package_key |-> key, target_id |-> a.targetId]

\* line 91
AssignmentCmd(key, a) ==
    [resource |-> "azuread_access_package_assignment",
     key |-> AssignKey(key, a), id |-> a.id]

\* A plausible slip: grouped_assignments[group] = {assign_key: assignment}
AddToGroupReset(ga, group, akey, entry) == Put(ga, group, Put(EmptyDict, akey, entry))

\* line 93: grouped_assignments.setdefault(group, {})[assign_key] = assignment
AddToGroup(ga, group, akey, entry) ==
    Put(ga, group, Put(IF group \in DOMAIN ga THEN ga[group] ELSE EmptyDict, akey, entry))

\* line 182: backend.tf exists, or main.tf exists and its text contains "backend"
BackendDetected(dir) ==
    BackendTf \in DOMAIN dir \/ (MainTf \in DOMAIN dir /\ dir[MainTf].backend)


-----------------------------------------------------------------------------
(* main: the steps *)

envVars == <<api, tokenOk, opts, pre, runs>>
dictVars == <<access_packages, assignment_policies, assignments,
              grouped_assignments, import_cmds>>
loopVars == <<packages, pkgNo, name, pols, assigns, subNo>>
ioVars == <<fs, written, procs>>

\* an uncaught exception ends main
Raise(e) == pc' = "failed" /\ err' = e

\* lines 43-53: enter the output directory, get the token, fetch the packages,
\* create the empty dictionaries
Start ==
    /\ pc = "start"
    /\ IF ~tokenOk
       THEN /\ Raise("KeyError:access_token")
            /\ UNCHANGED <<dictVars, loopVars>>
       ELSE /\ packages' = Fetch(ServerPackages(api))
            /\ access_packages' = EmptyDict
            /\ assignment_policies' = EmptyDict
            /\ assignments' = EmptyDict
            /\ grouped_assignments' = EmptyDict
            /\ import_cmds' = <<>>
            /\ pc' = "pkg"
            /\ UNCHANGED <<err, pkgNo, name, pols, assigns, subNo>>
    /\ UNCHANGED <<envVars, ioVars, safeVars, fetchVars>>

\* lines 55-63: the next package: its key, its entry, its import command, and
\* the fetch of its policies
ExportPackage ==
    /\ pc = "pkg"
    /\ packages # <<>>
    /\ LET pkg == Head(packages)
           e == PackageError(pkg)
           key == safe(pkg.displayName)
       IN  IF e \in {"KeyError:displayName", "KeyError:catalogId"}
           THEN /\ Raise(e)
                /\ UNCHANGED <<dictVars, loopVars>>
           ELSE IF e = "KeyError:id"
           THEN /\ access_packages' = StorePackage(access_packages, key, pkg)
                /\ Raise(e)
                /\ UNCHANGED <<assignment_policies, assignments, grouped_assignments,
                               import_cmds, loopVars>>
           ELSE /\ access_packages' = StorePackage(access_packages, key, pkg)
                /\ import_cmds' = Append(import_cmds, PackageCmd(key, pkg))
                /\ name' = key
                /\ packages' = Tail(packages)
                /\ pkgNo' = pkgNo + 1
                /\ pols' = Fetch(ServerPolicies(api, pkgNo + 1))
                /\ subNo' = 0
                /\ pc' = "pol"
                /\ UNCHANGED <<err, assigns, assignment_policies, assignments,
                               grouped_assignments>>
    /\ UNCHANGED <<envVars, ioVars, safeVars, fetchVars>>

\* lines 64-79: one policy of the current package
ExportPolicy ==
    /\ pc = "pol"
    /\ pols # <<>>
    /\ LET pol == Head(pols)
       IN  IF pol.missing = "displayName"
           THEN /\ Raise("KeyError:displayName")
                /\ UNCHANGED <<dictVars, loopVars>>
           ELSE IF pol.missing = "id"
           THEN /\ assignment_policies' =
                       Put(assignment_policies, PolKey(name, pol), PolicyEntry(name, pol))
                /\ Raise("KeyError:id")
                /\ UNCHANGED <<access_packages, assignments, grouped_assignments,
                               import_cmds, loopVars>>
           ELSE /\ assignment_policies' =
                       Put(assignment_policies, PolKey(name, pol), PolicyEntry(name, pol))
                /\ import_cmds' = Append(import_cmds, PolicyCmd(name, pol))
                /\ pols' = Tail(pols)
                /\ subNo' = subNo + 1
                /\ UNCHANGED <<pc, err, access_packages, assignments, grouped_assignments,
                               packages, pkgNo, name, assigns>>
    /\ UNCHANGED <<envVars, ioVars, safeVars, fetchVars>>

\* line 81: the policies are done; fetch the assignments of the current package
FetchAssignments ==
    /\ pc = "pol"
    /\ pols = <<>>
    /\ assigns' = Fetch(ServerAssignments(api, pkgNo))
    /\ subNo' = 0
    /\ pc' = IF assigns' = <<>> THEN "pkg" ELSE "asg"
    /\ UNCHANGED <<err, packages, pkgNo, name, pols, dictVars, envVars, ioVars,
                   safeVars, fetchVars>>

\* lines 82-93: one assignment of the current package
ExportAssignment ==
    /\ pc = "asg"
    /\ assigns # <<>>
    /\ LET a == Head(assigns)
       IN  IF a.missing = "targetId"
           THEN /\ Raise("KeyError:targetId")
                /\ UNCHANGED <<dictVars, loopVars>>
           ELSE IF a.missing = "id"
           THEN /\ assignments' =
                       Put(assignments, AssignKey(name, a), AssignmentEntry(name, a))
                /\ Raise("KeyError:id")
                /\ UNCHANGED <<access_packages, assignment_policies, grouped_assignments,
                               import_cmds, loopVars>>
           ELSE /\ assignments' =
                       Put(assignments, AssignKey(name, a), AssignmentEntry(name, a))
                /\ import_cmds' = Append(import_cmds, AssignmentCmd(name, a))
                /\ grouped_assignments' =
                       IF opts.grouped_tfvars
                       THEN AddToGroup(grouped_assignments, GroupOf(a),
                                       AssignKey(name, a), AssignmentEntry(name, a))
                       ELSE grouped_assignments
                /\ assigns' = Tail(assigns)
                /\ subNo' = subNo + 1
                /\ pc' = IF Tail(assigns) = <<>> THEN "pkg" ELSE "asg"
                /\ UNCHANGED <<err, access_packages, assignment_policies, packages,
                               pkgNo, name, pols>>
    /\ UNCHANGED <<envVars, ioVars, safeVars, fetchVars>>

\* lines 95-99: terraform.tfvars
WriteTfvars ==
    /\ pc = "pkg"
    /\ packages = <<>>
    /\ fs' = Put(fs, TerraformTfvars,
                 [kind |-> "tfvars", access_packages |-> access_packages,
                  assignment_policies |-> assignment_policies,
                  assignments |-> assignments])
    /\ written' = written \cup {TerraformTfvars}
    /\ pc' = "groups"
    /\ UNCHANGED <<err, procs, dictVars, loopVars, envVars, safeVars, fetchVars>>

\* lines 101-105: one <group>.tfvars per key of grouped_assignments
WriteGroupFiles ==
    /\ pc = "groups"
    /\ LET groups == IF opts.grouped_tfvars THEN DOMAIN grouped_assignments ELSE {}
           files == {GroupTfvars(g) : g \in groups}
       IN  /\ fs' = [f \in DOMAIN fs \cup files |->
                        IF f \in files
                        THEN [kind |-> "group",
                              assignments |-> grouped_assignments[f[1]]]
                        ELSE fs[f]]
           /\ written' = written \cup files
    /\ pc' = "script"
    /\ UNCHANGED <<err, procs, dictVars, loopVars, envVars, safeVars, fetchVars>>

\* lines 107-111: terraform_import.sh
WriteImportScript ==
    /\ pc = "script"
    /\ fs' = Put(fs, ImportScript,
                 [kind |-> "script", shebang |-> "#!/bin/bash", cmds |-> import_cmds])
    /\ written' = written \cup {ImportScript}
    /\ pc' = "main_tf"
    /\ UNCHANGED <<err, procs, dictVars, loopVars, envVars, safeVars, fetchVars>>

\* A plausible slip: the scaffold is written whether or not main.tf exists.
WriteMainTfAlways ==
    /\ pc = "main_tf"
    /\ IF opts.generate_main
       THEN /\ fs' = Put(fs, MainTf, MainScaffold)
            /\ written' = written \cup {MainTf}
       ELSE UNCHANGED <<fs, written>>
    /\ pc' = "variables_tf"
    /\ UNCHANGED <<err, procs, dictVars, loopVars, envVars, safeVars, fetchVars>>

\* lines 113-151: main.tf
WriteMainTf ==
    /\ pc = "main_tf"
    /\ IF opts.generate_main /\ MainTf \notin DOMAIN fs
       THEN /\ fs' = Put(fs, MainTf, MainScaffold)
            /\ written' = written \cup {MainTf}
       ELSE UNCHANGED <<fs, written>>
    /\ pc' = "variables_tf"
    /\ UNCHANGED <<err, procs, dictVars, loopVars, envVars, safeVars, fetchVars>>

\* lines 153-179: variables.tf
WriteVariablesTf ==
    /\ pc = "variables_tf"
    /\ IF opts.generate_main /\ VariablesTf \notin DOMAIN fs
       THEN /\ fs' = Put(fs, VariablesTf, VariablesScaffold)
            /\ written' = written \cup {VariablesTf}
       ELSE UNCHANGED <<fs, written>>
    /\ pc' = "imports"
    /\ UNCHANGED <<err, procs, dictVars, loopVars, envVars, safeVars, fetchVars>>

\* A plausible slip: subprocess.run without check=True.
RunInitUnchecked ==
    /\ pc = "imports"
    /\ IF ~opts.run_imports
       THEN pc' = "done" /\ UNCHANGED <<procs, err>>
       ELSE IF BackendDetected(fs)
       THEN \E rc \in {0, 1} :
               /\ procs' = Append(procs, [cmd |-> "terraform init", rc |-> rc])
               /\ pc' = "run_script"
               /\ UNCHANGED err
       ELSE pc' = "run_script" /\ UNCHANGED <<procs, err>>
    /\ UNCHANGED <<fs, written, dictVars, loopVars, envVars, safeVars, fetchVars>>

\* lines 181-184: with --run-imports, terraform init when a backend is
\* detected; check=True raises CalledProcessError on a non-zero exit status
RunInit ==
    /\ pc = "imports"
    /\ IF ~opts.run_imports
       THEN pc' = "done" /\ UNCHANGED <<procs, err>>
       ELSE IF BackendDetected(fs)
       THEN \E rc \in {0, 1} :
               /\ procs' = Append(procs, [cmd |-> "terraform init", rc |-> rc])
               /\ IF rc = 0
                  THEN pc' = "run_script" /\ UNCHANGED err
                  ELSE Raise("CalledProcessError")
       ELSE pc' = "run_script" /\ UNCHANGED <<procs, err>>
    /\ UNCHANGED <<fs, written, dictVars, loopVars, envVars, safeVars, fetchVars>>

\* lines 185-186: bash terraform_import.sh; its exit status is not looked at
RunImportScript ==
    /\ pc = "run_script"
    /\ \E rc \in {0, 1} :
           procs' = Append(procs, [cmd |-> "bash terraform_import.sh", rc |-> rc])
    /\ pc' = "done"
    /\ UNCHANGED <<err, fs, written, dictVars, loopVars, envVars, safeVars, fetchVars>>

AllOpts == [grouped_tfvars : BOOLEAN, generate_main : BOOLEAN, run_imports : BOOLEAN]

\* main is started again on the same output directory and the same tenant,
\* with any flags
Rerun ==
    /\ pc \in {"done", "failed"}
    /\ runs < MaxRuns
    /\ runs' = runs + 1
    /\ opts' \in AllOpts
    /\ pre' = fs
    /\ written' = {}
    /\ procs' = <<>>
    /\ pc' = "start"
    /\ err' = "none"
    /\ packages' = <<>> /\ pkgNo' = 0 /\ name' = <<>>
    /\ pols' = <<>> /\ assigns' = <<>> /\ subNo' = 0
    /\ access_packages' = EmptyDict
    /\ assignment_policies' = EmptyDict
    /\ assignments' = EmptyDict
    /\ grouped_assignments' = EmptyDict
    /\ import_cmds' = <<>>
    /\ UNCHANGED <<api, tokenOk, fs, safeVars, fetchVars>>

-----------------------------------------------------------------------------
(* The specifications *)

MainIdle ==
    /\ api = <<>> /\ tokenOk = TRUE
    /\ opts = [grouped_tfvars |-> FALSE, generate_main |-> FALSE, run_imports |-> FALSE]
    /\ fs = EmptyDict /\ pre = EmptyDict /\ written = {} /\ procs = <<>>
    /\ runs = 0 /\ pc = "idle" /\ err = "none"
    /\ packages = <<>> /\ pkgNo = 0 /\ name = <<>>
    /\ pols = <<>> /\ assigns = <<>> /\ subNo = 0
    /\ access_packages = EmptyDict /\ assignment_policies = EmptyDict
    /\ assignments = EmptyDict /\ grouped_assignments = EmptyDict
    /\ import_cmds = <<>>

\* main about to run for the first time in the directory dir
MainStart ==
    /\ pre = fs /\ written = {} /\ procs = <<>>
    /\ runs = 1 /\ pc = "start" /\ err = "none"
    /\ packages = <<>> /\ pkgNo = 0 /\ name = <<>>
    /\ pols = <<>> /\ assigns = <<>> /\ subNo = 0
    /\ access_packages = EmptyDict /\ assignment_policies = EmptyDict
    /\ assignments = EmptyDict /\ grouped_assignments = EmptyDict
    /\ import_cmds = <<>>

\* safe applied twice to every short display name
InitSafe ==
    /\ sName \in SeqsUpTo(SafeAlphabet, MaxLen)
    /\ sOnce = <<>> /\ sTwice = <<>> /\ sStage = 0
    /\ FetchIdle /\ MainIdle

NextSafe == ApplySafe

SpecSafe == InitSafe /\ [][NextSafe]_vars

\* get_all against every short chain of responses
InitFetch ==
    /\ chain \in Chains
    /\ url = 1 /\ items = <<>> /\ requests = 0 /\ fpc = "loop"
    /\ SafeIdle /\ MainIdle

NextFetch == FetchPage \/ ReturnItems

SpecFetch == InitFetch /\ [][NextFetch]_vars

MainSteps ==
    \/ Start
    \/ ExportPackage
    \/ ExportPolicy
    \/ FetchAssignments
    \/ ExportAssignment
    \/ WriteTfvars
    \/ WriteGroupFiles
    \/ WriteImportScript
    \/ WriteMainTf
    \/ WriteVariablesTf
    \/ RunInit
    \/ RunImportScript

\* One run of main, with scaffolds and imports asked for, over every small
\* catalog, in a directory that holds a backend.tf.
Init ==
    /\ SafeIdle /\ FetchIdle
    /\ \/ tokenOk = TRUE /\ api \in Worlds(MaxFetched)
       \/ tokenOk = FALSE /\ api = <<>>
    /\ opts \in {o \in AllOpts : o.generate_main /\ o.run_imports}
    /\ fs = Put(EmptyDict, BackendTf, UserFile(TRUE))
    /\ MainStart

Next == MainSteps

Spec == Init /\ [][Next]_vars

\* The catalogs of the repeated runs: empty, one package with one policy and
\* one assignment, and one package without an id.
RerunWorlds ==
    {<<>>,
     <<Bundle(CHOOSE p \in WellPkgs : p.displayName = <<"C">>,
              <<CHOOSE l \in WellPols : l.hasDuration>>,
              <<CHOOSE a \in WellAsgs : a.targetId = T1>>)>>,
     <<Bundle(CHOOSE p \in BrokenPkgs : p.missing = "id", <<>>, <<>>)>>}

\* The directories main may find: main.tf absent, or the user's with or
\* without a backend block; variables.tf and backend.tf absent or present.
Directories ==
    {[f \in D |-> IF f = MainTf THEN UserFile(b) ELSE UserFile(f = BackendTf)] :
        D \in SUBSET {MainTf, VariablesTf, BackendTf}, b \in BOOLEAN}

\* Repeated runs of main on one directory, with every combination of flags.
InitRerun ==
    /\ SafeIdle /\ FetchIdle
    /\ \/ tokenOk = TRUE /\ api \in RerunWorlds
       \/ tokenOk = FALSE /\ api = <<>>
    /\ opts \in AllOpts
    /\ fs \in Directories
    /\ MainStart

NextRerun == MainSteps \/ Rerun

SpecRerun == InitRerun /\ [][NextRerun]_vars


-----------------------------------------------------------------------------
(* Properties of safe *)

\* C5: for every display name s, safe(safe(s)) = safe(s).
C5_SafeIdempotent == sStage = 2 => sTwice = sOnce

\* safe was applied twice to a name with an uppercase letter, a hyphen and
\* the character whose lowercase is two characters
C5_Witness ==
    /\ sStage = 2
    /\ sName = <<"A", "-", IDot>>
    /\ sOnce = <<"a", "_", "i", CombiningDot>>

-----------------------------------------------------------------------------
(* Properties of get_all *)

\* The item list of a page; a page without one has no items.
PageItems(res) == IF res.hasValue THEN res.value ELSE <<>>

RECURSIVE ConcatPages(_, _)
\* the item lists of the first k pages, one after the other
ConcatPages(ch, k) ==
    IF k = 0 THEN <<>> ELSE ConcatPages(ch, k - 1) \o PageItems(ch[k])

\* the last page of the chain: the first response that names no following page
LastPage(ch) ==
    CHOOSE k \in 1..Len(ch) :
        /\ ~(ch[k].json /\ ch[k].next = "link")
        /\ \A j \in 1..(k - 1) : ch[j].json /\ ch[j].next = "link"

\* C1: over a chain of page responses whose last page has no continuation
\* link, get_all requests the pages in order, one request each, stops after
\* the last page, and returns the concatenation of the pages' item lists in
\* the order of the pages.
C1_Concatenation ==
    (\A k \in 1..LastPage(chain) : chain[k].json) =>
        /\ fpc # "raised"
        /\ requests <= LastPage(chain)
        /\ (fpc = "loop" /\ url # 0) => (url = requests + 1 /\ requests < LastPage(chain))
        /\ (fpc = "loop" /\ requests = LastPage(chain)) => url = 0
        /\ items = ConcatPages(chain, requests)
        /\ fpc = "returned" => requests = LastPage(chain)

\* get_all has returned the four items of two full pages
C1_Witness ==
    /\ fpc = "returned"
    /\ requests = 2
    /\ chain[1].value = <<1, 2>>
    /\ chain[2].value = <<2, 1>>
    /\ items = <<1, 2, 2, 1>>

\* the chain with its k-th response replaced by an empty last page
Exhausted(ch, k) ==
    [ch EXCEPT ![k] = [json |-> TRUE, hasValue |-> TRUE, value |-> <<>>,
                       next |-> "absent"]]

\* C7: when a request returns an error response (neither an item list nor a
\* continuation link), get_all raises nothing: it stops and returns the items
\* of the pages before it (none when the error is the first response), which
\* is what it returns when the result set ends there.
C7_ErrorSwallowed ==
    (requests >= 1 /\ IsErrorResponse(chain[requests])) =>
        /\ fpc \in {"loop", "returned"}
        /\ url = 0
        /\ items = ConcatPages(chain, requests - 1)
        /\ requests = 1 => items = <<>>
        /\ fpc = "returned" =>
              /\ GetAll(Exhausted(chain, requests)).fpc = "returned"
              /\ GetAll(Exhausted(chain, requests)).items = items

\* get_all has returned the items of the first page after an error response
\* to its second request
C7_Witness ==
    /\ fpc = "returned"
    /\ requests = 2
    /\ IsErrorResponse(chain[2])
    /\ items = <<2, 1>>


-----------------------------------------------------------------------------
(* Properties of main *)

\* the export loop has visited every fetched package
LoopDone ==
    \/ pc = "pkg" /\ packages = <<>>
    \/ pc \in {"groups", "script", "main_tf", "variables_tf", "imports", "run_script", "done"}
    \/ pc = "failed" /\ err = "CalledProcessError"

\* the group files have been written by this run
GroupsWritten ==
    \/ pc \in {"script", "main_tf", "variables_tf", "imports", "run_script", "done"}
    \/ pc = "failed" /\ err = "CalledProcessError"

\* terraform_import.sh has been written by this run
ScriptWritten ==
    \/ pc \in {"main_tf", "variables_tf", "imports", "run_script", "done"}
    \/ pc = "failed" /\ err = "CalledProcessError"

\* the key of the i-th fetched package
KeyOfPkg(i) == safe(api[i].pkg.displayName)

\* the catalog id and description of the i-th fetched package
DataOfPkg(i) ==
    [catalog_id |-> api[i].pkg.catalogId,
     description |-> IF api[i].pkg.hasDescription THEN api[i].pkg.description ELSE ""]

\* C2, as claimed: when two fetched packages have the same display name (and
\* no other has that display name), the entry under their key carries the
\* catalog id and description of the second.
C2_SecondOfTwoWins ==
    LoopDone =>
        \A i, j \in 1..Len(api) :
            (/\ i < j
             /\ api[i].pkg.displayName = api[j].pkg.displayName
             /\ \A k \in 1..Len(api) \ {i, j} :
                    api[k].pkg.displayName # api[i].pkg.displayName)
            => /\ KeyOfPkg(j) \in DOMAIN access_packages
               /\ access_packages[KeyOfPkg(j)] = DataOfPkg(j)

\* C2, amended: access_packages has one entry per sanitized display name, and
\* the entry carries the catalog id and description of the last fetched
\* package whose sanitized display name is that key: the second of two
\* packages of one display name unless a later package sanitizes to their key.
\* terraform.tfvars is written with that mapping.
C2_LastOfKeyWins ==
    /\ LoopDone =>
          /\ DOMAIN access_packages = {KeyOfPkg(i) : i \in 1..Len(api)}
          /\ \A i \in 1..Len(api) :
                (\A k \in (i + 1)..Len(api) : KeyOfPkg(k) # KeyOfPkg(i))
                => access_packages[KeyOfPkg(i)] = DataOfPkg(i)
    /\ pc = "groups" => fs[TerraformTfvars].access_packages = access_packages

\* two packages of one display name and different descriptions were fetched,
\* none after them, and the mapping is complete
C2_Witness ==
    /\ pc = "done"
    /\ Len(api) = 2
    /\ api[1].pkg.displayName = api[2].pkg.displayName
    /\ DataOfPkg(1) # DataOfPkg(2)
    /\ access_packages[KeyOfPkg(1)] = DataOfPkg(2)

\* the fetched assignments: <<i, j>> is the j-th assignment of the i-th package
AsgIdx == UNION {{<<i, j>> : j \in 1..Len(api[i].asgs)} : i \in 1..Len(api)}
AsgOf(x) == api[x[1]].asgs[x[2]]
FetchedBefore(x, y) == x[1] < y[1] \/ (x[1] = y[1] /\ x[2] < y[2])

\* the display name the target of an assignment resolves to
ResolvedName(x) ==
    IF HasDirectoryName(AsgOf(x).targetId) THEN DirectoryName(AsgOf(x).targetId)
    ELSE UnknownGroup

\* <package key>_user_<first 6 characters of the target id>
RefAssignKey(x) ==
    KeyOfPkg(x[1]) \o <<"_", "u", "s", "e", "r", "_">>
    \o [k \in 1..(IF Len(AsgOf(x).targetId) < 6 THEN Len(AsgOf(x).targetId) ELSE 6) |->
           AsgOf(x).targetId[k]]

RefAssignment(x) ==
    [access_package_key |-> KeyOfPkg(x[1]), target_id |-> AsgOf(x).targetId]

\* the group files this run has written
GroupFiles == {f \in written : fs[f].kind = "group"}

\* the entries of a group file
EntriesOf(f) == {fs[f].assignments[k] : k \in DOMAIN fs[f].assignments}

\* C3, as claimed: with grouping enabled, assignments whose targets resolve to
\* G distinct group display names give exactly G group files, and the file of
\* a group holds exactly the assignments whose target resolved to that group.
C3_FilePerDisplayName ==
    (GroupsWritten /\ opts.grouped_tfvars) =>
        /\ Cardinality(GroupFiles) = Cardinality({ResolvedName(x) : x \in AsgIdx})
        /\ \A x \in AsgIdx :
              /\ GroupTfvars(safe(ResolvedName(x))) \in GroupFiles
              /\ EntriesOf(GroupTfvars(safe(ResolvedName(x)))) =
                    {RefAssignment(y) : y \in {z \in AsgIdx : ResolvedName(z) = ResolvedName(x)}}

\* C3, amended: with grouping enabled the run writes exactly one group file per
\* distinct sanitized group name (safe of the resolved display name), so at
\* most G files; the file of a group has one entry per distinct assignment key
\* among the assignments resolved to that sanitized group, the entry of the
\* last fetched of them, and no entry of an assignment of another group.
\* Without grouping no group file is written.
C3_FilePerSanitizedGroup ==
    GroupsWritten =>
        IF opts.grouped_tfvars
        THEN /\ GroupFiles = {GroupTfvars(safe(ResolvedName(x))) : x \in AsgIdx}
             /\ \A x \in AsgIdx :
                   LET g == safe(ResolvedName(x))
                       mine == {y \in AsgIdx : safe(ResolvedName(y)) = g}
                       file == fs[GroupTfvars(g)].assignments
                   IN  /\ DOMAIN file = {RefAssignKey(y) : y \in mine}
                       /\ (\A y \in mine : ~(FetchedBefore(x, y) /\ RefAssignKey(y) = RefAssignKey(x)))
                          => file[RefAssignKey(x)] = RefAssignment(x)
        ELSE GroupFiles = {}

\* grouping was enabled, two assignments of distinct keys resolved to one
\* sanitized group, and its file holds both
C3_Witness ==
    /\ pc = "done"
    /\ opts.grouped_tfvars
    /\ Len(api) = 1
    /\ Len(api[1].asgs) = 2
    /\ GroupFiles = {GroupTfvars(<<"t", "_", "a">>)}
    /\ Cardinality(EntriesOf(GroupTfvars(<<"t", "_", "a">>))) = 2


\* C4: a main.tf or variables.tf that exists when main starts is left as it
\* is by the run, whatever the flags; a second run therefore leaves each
\* scaffold file as the first run left it.
C4_ScaffoldKept ==
    \A f \in {MainTf, VariablesTf} :
        f \in DOMAIN pre => (f \in DOMAIN fs /\ fs[f] = pre[f] /\ f \notin written)

\* a second run with scaffold generation has ended in a directory where the
\* first run created main.tf and the user had put variables.tf
C4_Witness ==
    /\ runs = 2
    /\ pc = "done"
    /\ opts.generate_main
    /\ MainTf \in DOMAIN pre /\ pre[MainTf] = MainScaffold
    /\ VariablesTf \in DOMAIN pre /\ pre[VariablesTf] = UserFile(FALSE)
    /\ fs[MainTf] = MainScaffold
    /\ fs[VariablesTf] = UserFile(FALSE)

RECURSIVE RefPolicyCmds(_, _)
\* the policy commands of package i, from its j-th policy on
RefPolicyCmds(i, j) ==
    IF j > Len(api[i].pols) THEN <<>>
    ELSE <<[resource |-> "azuread_access_package_assignment_policy",
            key |-> KeyOfPkg(i) \o <<"_">> \o safe(api[i].pols[j].displayName),
            id |-> PolId(i, j)]>> \o RefPolicyCmds(i, j + 1)

RECURSIVE RefAssignmentCmds(_, _)
\* the assignment commands of package i, from its j-th assignment on
RefAssignmentCmds(i, j) ==
    IF j > Len(api[i].asgs) THEN <<>>
    ELSE <<[resource |-> "azuread_access_package_assignment",
            key |-> RefAssignKey(<<i, j>>),
            id |-> AsgId(i, j)]>> \o RefAssignmentCmds(i, j + 1)

RECURSIVE RefCmds(_)
\* the reference sequence, from package i on
RefCmds(i) ==
    IF i > Len(api) THEN <<>>
    ELSE <<[resource |-> "azuread_access_package", key |-> KeyOfPkg(i), id |-> PkgId(i)]>>
         \o RefPolicyCmds(i, 1) \o RefAssignmentCmds(i, 1) \o RefCmds(i + 1)

\* the number of fetched objects
FetchedCount ==
    IF api = <<>> THEN 0
    ELSE LET RECURSIVE Sum(_)
             Sum(i) == IF i = 0 THEN 0 ELSE Sum(i - 1) + BundleCost(api[i])
         IN  Sum(Len(api))

\* C6: the import script holds, after its shebang, one command per fetched
\* object: per package in fetched order its own command, then one per policy
\* keyed <package key>_<safe(policy name)>, then one per assignment keyed
\* <package key>_user_<first 6 characters of the target id>.
C6_ImportScript ==
    ScriptWritten =>
        /\ fs[ImportScript].kind = "script"
        /\ fs[ImportScript].cmds = RefCmds(1)
        /\ Len(fs[ImportScript].cmds) = FetchedCount

\* the script was written for two packages, the first with a policy
C6_Witness ==
    /\ pc = "done"
    /\ Len(api) = 2
    /\ Len(api[1].pols) = 1
    /\ Len(fs[ImportScript].cmds) = 3
    /\ fs[ImportScript].cmds[2].resource = "azuread_access_package_assignment_policy"

InitRan == \E k \in 1..Len(procs) : procs[k].cmd = "terraform init"
ScriptRan == \E k \in 1..Len(procs) : procs[k].cmd = "bash terraform_import.sh"

\* C8: with --run-imports, terraform init runs exactly when backend.tf
\* exists, or main.tf exists and contains "backend", and it runs before the
\* import script; a failing init raises and the script never runs; a failing
\* script is ignored and main ends normally. Without --run-imports no
\* subprocess is started.
C8_ImportRunner ==
    /\ ~opts.run_imports => procs = <<>>
    /\ (opts.run_imports /\ pc \in {"run_script", "done"}) =>
          (InitRan <=> (BackendTf \in DOMAIN fs \/ (MainTf \in DOMAIN fs /\ fs[MainTf].backend)))
    /\ InitRan =>
          /\ procs[1].cmd = "terraform init"
          /\ BackendTf \in DOMAIN fs \/ (MainTf \in DOMAIN fs /\ fs[MainTf].backend)
          /\ procs[1].rc # 0 => (Len(procs) = 1 /\ pc = "failed" /\ err = "CalledProcessError")
    /\ ScriptRan =>
          /\ procs[Len(procs)].cmd = "bash terraform_import.sh"
          /\ Len(procs) = 1 \/ (Len(procs) = 2 /\ procs[1] = [cmd |-> "terraform init", rc |-> 0])
          /\ pc = "done" /\ err = "none"
    /\ (opts.run_imports /\ pc = "done") => ScriptRan

\* init succeeded, then the import script failed, and main ended normally
C8_Witness ==
    /\ pc = "done"
    /\ procs = <<[cmd |-> "terraform init", rc |-> 0],
                 [cmd |-> "bash terraform_import.sh", rc |-> 1]>>

\* some fetched object lacks a required field
Malformed ==
    \E i \in 1..Len(api) :
        \/ api[i].pkg.missing # "none"
        \/ \E j \in 1..Len(api[i].pols) : api[i].pols[j].missing # "none"
        \/ \E j \in 1..Len(api[i].asgs) : api[i].asgs[j].missing # "none"

KeyErrors ==
    {"KeyError:access_token", "KeyError:displayName", "KeyError:catalogId",
     "KeyError:id", "KeyError:targetId"}

\* C9: a token response without access_token, or a fetched object without a
\* required field, ends main with an uncaught KeyError before the export loop
\* completes; when it is raised this run has written no file, the directory
\* is as the run found it, and no subprocess has been started.
C9_FailBeforeOutput ==
    /\ (~tokenOk \/ Malformed) =>
          /\ pc \in {"start", "pkg", "pol", "asg", "failed"}
          /\ pc = "pkg" => packages # <<>>
          /\ pc = "failed" => err \in KeyErrors
    /\ err \in KeyErrors =>
          /\ pc = "failed"
          /\ ~tokenOk \/ Malformed
          /\ written = {} /\ fs = pre /\ procs = <<>>

\* main was ended by an assignment without an id, after the dictionaries had
\* taken a package and that assignment
C9_Witness ==
    /\ pc = "failed"
    /\ err = "KeyError:id"
    /\ access_packages # EmptyDict
    /\ assignments # EmptyDict
    /\ written = {}

\* every access_package_key in m is a key of ap
KeysKnown(m, ap) == \A k \in DOMAIN m : m[k].access_package_key \in DOMAIN ap

=============================================================================
